---- MODULE Spec2Model ----
(***************************************************************************)
(* A model of autotrader/apcleanup.py (class AutoPlot): the axis           *)
(* normaliser _reindex_data, the indicator slot allocator _plot_indicators,*)
(* the trade overlay _plot_trade_history, the composition plot with the    *)
(* autoscale callback it registers, and _plot_multibot_backtest.           *)
(***************************************************************************)
EXTENDS Integers, Sequences, FiniteSets, TLC

VARIABLES
    pc,             \* position of the running call
    indicators,     \* _plot_indicators: the ordered mapping, as the sequence of its 'type' entries
    idx,            \* _plot_indicators: position of the for loop in the mapping (1-based)
    indis_over,     \* _plot_indicators: local counter
    indis_below,    \* _plot_indicators: local counter
    bottom_figs,    \* _plot_indicators: local list of new figures
    linked_fig,     \* the base candle figure the layers are drawn on
    printed,        \* lines written by print()
    series,         \* the time-indexed frame the caller passes to AutoPlot(data)
    data,           \* self.data
    renormalised,   \* the result of _reindex_data applied to self.data
    trade_summary,  \* the trade table the caller passes to _plot_trade_history
    summary_kind,   \* which of cancelled_summary / open_summary the caller sets
    passed,         \* plot / _plot_multibot_backtest: the arguments as the caller passed them
    backtest_dict,  \* plot: the caller's trade tables after the call
    plots,          \* plot: top_figs + [candle_plot] + bottom_figs; the dashboard's figures
    x_view,         \* the browser: start and end of candle_plot.x_range
    y_view,         \* the browser: start and end of candle_plot.y_range, and who set them
    _modified_data  \* self._modified_data

vars == <<pc, indicators, idx, indis_over, indis_below, bottom_figs, linked_fig, printed,
          series, data, renormalised, trade_summary, summary_kind,
          passed, backtest_dict, plots, x_view, y_view, _modified_data>>

frameVars == <<series, data, renormalised, trade_summary, summary_kind>>

plotVars == <<passed, backtest_dict, plots, x_view, y_view>>

----------------------------------------------------------------------------
(* Bounds of the model *)

MaxIndis == 4       \* longest indicator mapping passed to _plot_indicators

MaxBars == 3        \* longest price series

MaxTrades == 2      \* longest trade table

MaxPlotIndis == 3   \* longest indicator mapping passed to plot

ScenarioBars == 100 \* bars of the price series of the end-to-end scenario

MaxBots == 3        \* most rows of the results table passed to _plot_multibot_backtest

----------------------------------------------------------------------------
(* AutoPlot.__init__ *)

max_indis_over == 3

max_indis_below == 2

(* The attributes that a lookup self.<name> finds: the methods the class
   defines with def. *)
Methods ==
    { "__init__", "add_tool", "_reindex_data", "plot", "_plot_multibot_backtest",
      "_plot_indicators", "_plot_line", "_plot_candles", "plot_swings",
      "plot_supertrend", "_plot_trade", "_plot_trade_history", "_plot_macd" }

(* HasMethod for which every name resolves. *)
HasMethod_Any(name) == TRUE

(* self.<name>(...) raises AttributeError unless the class defines <name>. *)
HasMethod(name) == name \in Methods

----------------------------------------------------------------------------
(* Data frames: an index and, per row, the values of the columns. *)

EmptyFrame == [index |-> <<>>, rows |-> <<>>]

FrameLen(df) == Len(df.index)

(* df[name] = values *)
SetCol(df, name, values) ==
    [df EXCEPT !.rows = [k \in 1..Len(@) |-> (name :> values[k]) @@ @[k]]]

(* df[name] *)
Col(df, name) == [k \in 1..Len(df.rows) |-> df.rows[k][name]]

(* ResetIndex that leaves the index as it is. *)
ResetIndex_Keep(df) == df

(* df.reset_index(drop = True): the same rows under the index 0..N-1 *)
ResetIndex(df) == [df EXCEPT !.index = [k \in 1..Len(df.rows) |-> k - 1]]

(* The sample timestamps of the index of a price series or of a trade table. *)
Timestamps == { 101, 102 }

ClosePrices == { 1, 2 }

RECURSIVE SeqsUpTo(_, _)
SeqsUpTo(S, n) ==
    IF n = 0 THEN { <<>> }
    ELSE LET shorter == SeqsUpTo(S, n - 1)
         IN  shorter \cup { Append(s, x) : s \in { t \in shorter : Len(t) = n - 1 }, x \in S }

(* The time-indexed price series of up to n bars whose Close is in P. *)
PriceSeries(n, P) ==
    { [index |-> [k \in 1..Len(bars) |-> bars[k].time],
       rows  |-> [k \in 1..Len(bars) |-> [Close |-> bars[k].Close]]] :
      bars \in SeqsUpTo([time : Timestamps, Close : P], n) }

----------------------------------------------------------------------------
(* _reindex_data. Python names refer to objects: heap is the sequence of the
   frames that exist, a name holds a position in it. *)

(* Copy that returns the object it was given. *)
DataFrameCopy_Alias(heap, ref) == [heap |-> heap, ref |-> ref]

(* data.copy(): a new object with the same content *)
DataFrameCopy(heap, ref) == [heap |-> Append(heap, heap[ref]), ref |-> Len(heap) + 1]

(* The run of _reindex_data on the caller's object: the frame returned and the
   caller's object afterwards. *)
ReindexRun(arg) ==
    LET h0 == << arg >>
        c  == DataFrameCopy(h0, 1)
        h1 == c.heap
        m1 == c.ref
        h2 == [h1 EXCEPT ![m1] = SetCol(@, "date", @.index)]
        h3 == Append(h2, ResetIndex(h2[m1]))
        m3 == Len(h3)
        h4 == [h3 EXCEPT ![m3] = SetCol(@, "data_index", @.index)]
    IN  [modified_data |-> h4[m3], data |-> h4[1]]

----------------------------------------------------------------------------
(* Figures. A range object is identified by the figure that created it. *)

CANDLE == 0     \* the figure built by _plot_candles for self.data (candle_plot)

Range(owner, axis) == [owner |-> owner, axis |-> axis]

(* _plot_candles: a new figure with ranges of its own, a segment and a vbar layer. *)
PlotCandles(owner) ==
    [ kind    |-> "candles",
      title   |-> 0,
      x_range |-> Range(owner, "x"),
      y_range |-> Range(owner, "y"),
      layers  |-> << [glyph |-> "segment", legend_label |-> 0, colour |-> "black"],
                     [glyph |-> "vbar", legend_label |-> 0, colour |-> "change"] >> ]

(* _plot_line with new_fig=True: a new figure on linked_fig's x_range, one black line. *)
PlotLineNewFig(owner, fig, legend_label) ==
    [ kind    |-> "line",
      title   |-> 0,
      x_range |-> fig.x_range,
      y_range |-> Range(owner, "y"),
      layers  |-> << [glyph |-> "line", legend_label |-> legend_label, colour |-> "black"] >> ]

(* PlotMacd that keeps the x range the new figure creates. *)
PlotMacd_OwnXRange(owner, fig) ==
    [ kind    |-> "macd",
      title   |-> 0,
      x_range |-> Range(owner, "x"),
      y_range |-> Range(owner, "y"),
      layers  |-> << [glyph |-> "line", legend_label |-> 0, colour |-> "blue"],
                     [glyph |-> "line", legend_label |-> 0, colour |-> "red"],
                     [glyph |-> "quad", legend_label |-> 0, colour |-> "histcolour"] >> ]

(* _plot_macd: a new figure on linked_fig's x_range with two lines and a histogram. *)
PlotMacd(owner, fig) ==
    [ kind    |-> "macd",
      title   |-> 0,
      x_range |-> fig.x_range,
      y_range |-> Range(owner, "y"),
      layers  |-> << [glyph |-> "line", legend_label |-> 0, colour |-> "blue"],
                     [glyph |-> "line", legend_label |-> 0, colour |-> "red"],
                     [glyph |-> "quad", legend_label |-> 0, colour |-> "histcolour"] >> ]

(* figure(..., x_range = linked_fig.x_range) followed by new_fig.line(...) *)
PlotBelowLine(owner, fig, legend_label) ==
    [ kind    |-> "below",
      title   |-> 0,
      x_range |-> fig.x_range,
      y_range |-> Range(owner, "y"),
      layers  |-> << [glyph |-> "line", legend_label |-> legend_label, colour |-> "black"] >> ]

(* PlotHeikinAshi that leaves the new figure its own y range. *)
PlotHeikinAshi_OwnYRange(owner, fig, title) ==
    [ PlotCandles(owner) EXCEPT !.x_range = fig.x_range, !.title = title ]

(* The Heikin-Ashi branch: a candle figure whose two ranges are then set to
   those of linked_fig. *)
PlotHeikinAshi(owner, fig, title) ==
    [ PlotCandles(owner) EXCEPT !.x_range = fig.x_range,
                                !.y_range = fig.y_range,
                                !.title = title ]

----------------------------------------------------------------------------
(* The arguments of plot, with the entries of backtest_dict that plot reads.
   backtest says whether backtest_dict is not None, indicators_given whether
   the indicators are not None. *)
NoArgs ==
    [ backtest         |-> FALSE,
      cumulative_PL    |-> FALSE,
      indicators_given |-> FALSE,
      indicators       |-> <<>>,
      trade_summary    |-> EmptyFrame,
      cancelled_trades |-> EmptyFrame,
      open_trades      |-> EmptyFrame ]

(* The caller's three trade tables. *)
TablesOf(a) ==
    [ trade_summary    |-> a.trade_summary,
      cancelled_trades |-> a.cancelled_trades,
      open_trades      |-> a.open_trades ]

(* The state before any plotting call and before the page is shown. *)
NothingPlotted ==
    /\ passed = NoArgs
    /\ backtest_dict = TablesOf(NoArgs)
    /\ plots = <<>>
    /\ x_view = [start |-> 0, end |-> 0]
    /\ y_view = [by |-> "DataRange1d", start |-> 0, end |-> 0]
    /\ _modified_data = "undefined"

----------------------------------------------------------------------------
(* _plot_indicators *)

plot_type ==
    ("MACD" :> "below") @@ ("MA" :> "over") @@ ("RSI" :> "below") @@
    ("STOCHASTIC" :> "below") @@ ("Heikin-Ashi" :> "below") @@
    ("Supertrend" :> "over") @@ ("Swings" :> "over") @@
    ("Engulfing" :> "below") @@ ("Crossover" :> "below") @@
    ("over" :> "over") @@ ("below" :> "below")

colours == << "red", "blue", "orange", "green" >>

(* The 'type' entries an indicator mapping may carry: the recognised ones and
   one that plot_type does not know. *)
IndicatorTypes == DOMAIN plot_type \cup { "Fibonacci" }

(* OverlayAdmits with the capacity test off by one. *)
OverlayAdmits_OffByOne(indi_type, over) ==
    plot_type[indi_type] = "over" /\ over <= max_indis_over

(* The guard of the overlay branch. *)
OverlayAdmits(indi_type, over) ==
    plot_type[indi_type] = "over" /\ over < max_indis_over

(* BelowAdmits with the capacity test off by one. *)
BelowAdmits_OffByOne(indi_type, below) ==
    plot_type[indi_type] = "below" /\ below <= max_indis_below

(* BelowAdmits that admits nothing. *)
BelowAdmits_Never(indi_type, below) == FALSE

(* The guard of the sub-panel branch. *)
BelowAdmits(indi_type, below) ==
    plot_type[indi_type] = "below" /\ below < max_indis_below

(* UnrecognisedAdmits without the capacity test. *)
UnrecognisedAdmits_NoCapacityTest(below) == below >= 0

(* The guard of the branch for types plot_type does not know. *)
UnrecognisedAdmits(below) == below < max_indis_below

(* What an admitted overlay indicator adds to indis_over. *)
OverlayUnits(indi_type) ==
    IF indi_type = "Supertrend" THEN 1 + 1 ELSE 1

(* BelowUnits without the blocking increment of the Heikin-Ashi branch. *)
BelowUnits_NoBlock(indi_type) == 1

(* What an admitted sub-panel indicator adds to indis_below. *)
BelowUnits(indi_type) ==
    IF indi_type = "Heikin-Ashi" THEN max_indis_below + 1 ELSE 1

(* The layers an admitted overlay indicator draws on linked_fig. *)
OverlayLayers(indi_type, indicator, over) ==
    IF indi_type = "Supertrend"
    THEN << [glyph |-> "scatter", legend_label |-> "Up trend support", colour |-> "blue"],
            [glyph |-> "scatter", legend_label |-> "Down trend support", colour |-> "red"] >>
    ELSE IF indi_type = "Swings"
    THEN << [glyph |-> "scatter", legend_label |-> "Last Swing Price Level", colour |-> "black"] >>
    ELSE << [glyph |-> "line", legend_label |-> indicator, colour |-> colours[over + 1]] >>

(* The method the overlay branch calls on self, "" when it draws inline. *)
OverlayCallee(indi_type) ==
    IF indi_type = "Supertrend" THEN "_plot_supertrend"
    ELSE IF indi_type = "Swings" THEN "_plot_swings"
    ELSE ""

(* The figure an admitted sub-panel indicator creates. *)
BelowFigure(indi_type, indicator, owner, fig) ==
    IF indi_type = "MACD" THEN [PlotMacd(owner, fig) EXCEPT !.title = indicator]
    ELSE IF indi_type = "Heikin-Ashi" THEN PlotHeikinAshi(owner, fig, indicator)
    ELSE PlotBelowLine(owner, fig, indicator)

InitAlloc ==
    /\ pc = "idle"
    /\ indicators = <<>>
    /\ idx = 1
    /\ indis_over = 0
    /\ indis_below = 0
    /\ bottom_figs = <<>>
    /\ linked_fig = PlotCandles(CANDLE)
    /\ printed = <<>>
    /\ series = EmptyFrame
    /\ data = EmptyFrame
    /\ renormalised = EmptyFrame
    /\ trade_summary = EmptyFrame
    /\ summary_kind = "closed"
    /\ NothingPlotted

(* The call: the caller passes a mapping and the base figure; the locals are set. *)
CallPlotIndicators ==
    /\ pc = "idle"
    /\ \E m \in SeqsUpTo(IndicatorTypes, MaxIndis) : indicators' = m
    /\ idx' = 1
    /\ indis_over' = 0
    /\ indis_below' = 0
    /\ bottom_figs' = <<>>
    /\ pc' = "loop"
    /\ UNCHANGED <<linked_fig, printed>>
    /\ UNCHANGED frameVars
    /\ UNCHANGED <<plotVars, _modified_data>>

(* One iteration of "for indicator in indicators". The indicator's name is its
   position in the mapping. *)
LoopIteration ==
    /\ pc = "loop"
    /\ idx <= Len(indicators)
    /\ LET indicator == idx
           indi_type == indicators[idx]
           owner     == Len(bottom_figs) + 1
       IN  IF indi_type \in DOMAIN plot_type
           THEN IF OverlayAdmits(indi_type, indis_over)
                THEN IF OverlayCallee(indi_type) = "" \/ HasMethod(OverlayCallee(indi_type))
                     THEN /\ linked_fig' = [linked_fig EXCEPT !.layers =
                                 @ \o OverlayLayers(indi_type, indicator, indis_over)]
                          /\ indis_over' = indis_over + OverlayUnits(indi_type)
                          /\ idx' = idx + 1
                          /\ UNCHANGED <<pc, indis_below, bottom_figs, printed>>
                     ELSE /\ pc' = "raised"
                          /\ UNCHANGED <<idx, indis_over, indis_below, bottom_figs,
                                         linked_fig, printed>>
                ELSE IF BelowAdmits(indi_type, indis_below)
                THEN /\ bottom_figs' = Append(bottom_figs,
                                              BelowFigure(indi_type, indicator, owner, linked_fig))
                     /\ indis_below' = indis_below + BelowUnits(indi_type)
                     /\ idx' = idx + 1
                     /\ UNCHANGED <<pc, indis_over, linked_fig, printed>>
                ELSE /\ idx' = idx + 1
                     /\ UNCHANGED <<pc, indis_over, indis_below, bottom_figs,
                                    linked_fig, printed>>
           ELSE IF UnrecognisedAdmits(indis_below)
                THEN /\ printed' = Append(printed, indicator)
                     /\ bottom_figs' = Append(bottom_figs,
                                              PlotLineNewFig(owner, linked_fig, indicator))
                     /\ indis_below' = indis_below + 1
                     /\ idx' = idx + 1
                     /\ UNCHANGED <<pc, indis_over, linked_fig>>
                ELSE /\ idx' = idx + 1
                     /\ UNCHANGED <<pc, indis_over, indis_below, bottom_figs,
                                    linked_fig, printed>>
    /\ UNCHANGED indicators
    /\ UNCHANGED frameVars
    /\ UNCHANGED <<plotVars, _modified_data>>

(* The loop is over: return bottom_figs. *)
ReturnPlotIndicators ==
    /\ pc = "loop"
    /\ idx > Len(indicators)
    /\ pc' = "returned"
    /\ UNCHANGED <<indicators, idx, indis_over, indis_below, bottom_figs, linked_fig, printed>>
    /\ UNCHANGED frameVars
    /\ UNCHANGED <<plotVars, _modified_data>>

NextAlloc ==
    \/ CallPlotIndicators
    \/ LoopIteration
    \/ ReturnPlotIndicators

SpecAlloc == InitAlloc /\ [][NextAlloc]_vars

----------------------------------------------------------------------------
(* The axis normaliser applied by __init__, and applied again to its result *)

InitReindex ==
    /\ pc = "idle"
    /\ indicators = <<>>
    /\ idx = 1
    /\ indis_over = 0
    /\ indis_below = 0
    /\ bottom_figs = <<>>
    /\ linked_fig = PlotCandles(CANDLE)
    /\ printed = <<>>
    /\ series \in PriceSeries(MaxBars, ClosePrices)
    /\ data = EmptyFrame
    /\ renormalised = EmptyFrame
    /\ trade_summary = EmptyFrame
    /\ summary_kind = "closed"
    /\ NothingPlotted

(* AutoPlot.__init__: self.data = self._reindex_data(data) *)
Construct ==
    /\ pc = "idle"
    /\ data' = ReindexRun(series).modified_data
    /\ series' = ReindexRun(series).data
    /\ pc' = "constructed"
    /\ UNCHANGED <<indicators, idx, indis_over, indis_below, bottom_figs, linked_fig,
                   printed, renormalised, trade_summary, summary_kind>>
    /\ _modified_data' = "None"
    /\ UNCHANGED plotVars

(* self._reindex_data(self.data) *)
ReindexAgain ==
    /\ pc = "constructed"
    /\ renormalised' = ReindexRun(data).modified_data
    /\ data' = ReindexRun(data).data
    /\ pc' = "renormalised"
    /\ UNCHANGED <<indicators, idx, indis_over, indis_below, bottom_figs, linked_fig,
                   printed, series, trade_summary, summary_kind>>
    /\ UNCHANGED <<plotVars, _modified_data>>

NextReindex ==
    \/ Construct
    \/ ReindexAgain

SpecReindex == InitReindex /\ [][NextReindex]_vars

----------------------------------------------------------------------------
(* _plot_trade_history *)

SummaryKinds == { "closed", "cancelled", "open" }

Sizes == { -1, 1 }

Profits == { -1, 0, 1 }

(* A stop-loss or take-profit entry: None, or a price. *)
Levels == { "None", "price" }

(* The rows of a trade table, with the entry time the table is indexed by. The
   tables of cancelled and open trades carry no exit time and no profit. *)
TradeEntries(kind) ==
    IF kind = "closed"
    THEN [time : Timestamps, Exit_time : Timestamps, Size : Sizes, Profit : Profits,
          Stop_loss : Levels, Take_profit : Levels]
    ELSE [time : Timestamps, Size : Sizes, Stop_loss : Levels, Take_profit : Levels]

TradeTables(kind) ==
    { [index |-> [k \in 1..Len(es) |-> es[k].time],
       rows  |-> [k \in 1..Len(es) |->
                    [c \in (DOMAIN es[k]) \ { "time" } |-> es[k][c]]]] :
      es \in SeqsUpTo(TradeEntries(kind), MaxTrades) }

(* KeysMatch that pairs every row with every row. *)
KeysMatch_Any(a, b) == TRUE

(* The equi-join condition of pd.merge. *)
KeysMatch(a, b) == a = b

(* pd.merge(left, right, left_on = ..., right_on = ...): the inner join, in the
   order of the left rows and, for one left row, of the right rows. A merged
   row has the data_index of the left row, the columns of the right row and
   the position of the right row, kept to tell which record a point comes
   from. *)
Merge(left, right, left_on, right_on) ==
    LET nr    == Len(right.rows)
        pairs == SelectSeq([p \in 1..(Len(left.rows) * nr) |->
                              [i |-> ((p - 1) \div nr) + 1, j |-> ((p - 1) % nr) + 1]],
                           LAMBDA p : KeysMatch(left.rows[p.i][left_on],
                                                right.rows[p.j][right_on]))
    IN  [k \in 1..Len(pairs) |->
            ("data_index" :> left.rows[pairs[k].i].data_index) @@ ("row" :> pairs[k].j)
                @@ right.rows[pairs[k].j]]

(* linked_fig.scatter(x, y, ...): one point per row, x its data_index and y its
   value in column ycol. *)
Scatter(rows, ycol, marker, colour, label) ==
    [ glyph        |-> "scatter",
      legend_label |-> label,
      colour       |-> colour,
      marker       |-> marker,
      points       |-> [k \in 1..Len(rows) |->
                          [x |-> rows[k].data_index, y |-> ycol, row |-> rows[k].row]] ]

(* if len(rows) > 0: scatter *)
ScatterIfAny(rows, ycol, marker, colour, label) ==
    IF Len(rows) > 0 THEN << Scatter(rows, ycol, marker, colour, label) >> ELSE <<>>

(* LevelsAllSet that is content with one value that is set. *)
LevelsAllSet_Some(values) == \E k \in 1..Len(values) : values[k] # "None"

(* LevelsAllSet that wants a column with values. *)
LevelsAllSet_NonEmpty(values) ==
    Len(values) > 0 /\ \A k \in 1..Len(values) : values[k] # "None"

(* None not in <column>.values *)
LevelsAllSet(values) == \A k \in 1..Len(values) : values[k] # "None"

(* The layers _plot_trade_history draws from the frame merged on the entry
   times and the frame merged on the exit times. *)
TradeHistoryLayers(merged, exit_summary, kind) ==
    LET long_trades   == SelectSeq(merged, LAMBDA r : r.Size > 0)
        shorts_trades == SelectSeq(merged, LAMBDA r : r.Size < 0)
        closed        == kind = "closed"
        profitable_longs    == SelectSeq(long_trades, LAMBDA r : r.Profit > 0)
        unprofitable_longs  == SelectSeq(long_trades, LAMBDA r : r.Profit < 0)
        profitable_shorts   == SelectSeq(shorts_trades, LAMBDA r : r.Profit > 0)
        unprofitable_shorts == SelectSeq(shorts_trades, LAMBDA r : r.Profit < 0)
        price         == IF kind = "cancelled" THEN "Order_price" ELSE "Entry"
        fill_color    == IF kind = "cancelled" THEN "black" ELSE "white"
        long_label    == IF kind = "cancelled" THEN "Cancelled long trades"
                         ELSE "Open long trades"
        short_label   == IF kind = "cancelled" THEN "Cancelled short trades"
                         ELSE "Open short trades"
        entries       ==
            IF closed
            THEN ScatterIfAny(profitable_longs, "Entry", "triangle", "lightgreen",
                              "Profitable long trades")
                 \o ScatterIfAny(profitable_shorts, "Entry", "inverted_triangle",
                                 "lightgreen", "Profitable short trades")
                 \o ScatterIfAny(unprofitable_longs, "Entry", "triangle", "orangered",
                                 "Unprofitable long trades")
                 \o ScatterIfAny(unprofitable_shorts, "Entry", "inverted_triangle",
                                 "orangered", "Unprofitable short trades")
            ELSE ScatterIfAny(long_trades, price, "triangle", fill_color, long_label)
                 \o ScatterIfAny(shorts_trades, price, "inverted_triangle", fill_color,
                                 short_label)
        stops         ==
            IF LevelsAllSet([k \in 1..Len(merged) |-> merged[k].Stop_loss])
            THEN << Scatter(merged, "Stop_loss", "dash", "black", "Stop loss") >>
            ELSE <<>>
        takes         ==
            IF LevelsAllSet([k \in 1..Len(merged) |-> merged[k].Take_profit])
            THEN << Scatter(merged, "Take_profit", "dash", "black", "Take profit") >>
            ELSE <<>>
        exits         ==
            IF closed
            THEN << Scatter(exit_summary, "Exit_price", "circle", "black", "Position exit") >>
            ELSE <<>>
    IN  entries \o stops \o takes \o exits

(* The run of _plot_trade_history: the layers it adds to linked_fig and the
   caller's table afterwards. Each of the two merges is computed once. *)
TradeHistoryRun(axis, table, kind) ==
    LET caller == SetCol(table, "date", table.index)
    IN  [ layers |->
            CHOOSE layers \in
                { TradeHistoryLayers(merged, exit_summary, kind) :
                    merged \in { Merge(axis, ts, "date", "date") : ts \in { ResetIndex(caller) } },
                    exit_summary \in
                        { IF kind = "closed" THEN Merge(axis, ts, "date", "Exit_time") ELSE <<>> :
                            ts \in { ResetIndex(caller) } } } : TRUE,
          trade_summary |-> caller ]

(* Prices of the base series when only its timestamps matter. *)
FlatPrices == { 1 }

(* The instance is built on a price series that has bars. *)
InitTrades ==
    /\ pc = "idle"
    /\ indicators = <<>>
    /\ idx = 1
    /\ indis_over = 0
    /\ indis_below = 0
    /\ bottom_figs = <<>>
    /\ linked_fig = PlotCandles(CANDLE)
    /\ printed = <<>>
    /\ series \in PriceSeries(MaxBars, FlatPrices)
    /\ FrameLen(series) >= 1
    /\ data = EmptyFrame
    /\ renormalised = EmptyFrame
    /\ trade_summary = EmptyFrame
    /\ summary_kind = "closed"
    /\ NothingPlotted

(* self._plot_trade_history(trade_summary, candle_plot, ...) on a table of
   closed, cancelled or open trades *)
PlotTradeHistory ==
    /\ pc = "constructed"
    /\ \E kind \in SummaryKinds :
         \E table \in TradeTables(kind) :
            LET run == TradeHistoryRun(data, table, kind)
            IN  /\ trade_summary' = run.trade_summary
                /\ summary_kind' = kind
                /\ linked_fig' = [linked_fig EXCEPT !.layers = @ \o run.layers]
    /\ pc' = "returned"
    /\ UNCHANGED <<indicators, idx, indis_over, indis_below, bottom_figs, printed,
                   series, data, renormalised>>
    /\ UNCHANGED <<plotVars, _modified_data>>

NextTrades ==
    \/ Construct
    \/ PlotTradeHistory

SpecTrades == InitTrades /\ [][NextTrades]_vars

----------------------------------------------------------------------------
(* _plot_indicators as the caller sees it: the loop run from the first
   indicator to the last, or to the one that raises. *)

AllocStart(fig) ==
    [ raised      |-> FALSE,
      idx         |-> 1,
      indis_over  |-> 0,
      indis_below |-> 0,
      bottom_figs |-> <<>>,
      linked_fig  |-> fig,
      printed     |-> <<>> ]

(* One iteration of the for loop on the locals st. *)
AllocStep(st, mapping) ==
    LET indicator == st.idx
        indi_type == mapping[st.idx]
        owner     == Len(st.bottom_figs) + 1
        skip      == [st EXCEPT !.idx = @ + 1]
    IN  IF indi_type \in DOMAIN plot_type
        THEN IF OverlayAdmits(indi_type, st.indis_over)
             THEN IF OverlayCallee(indi_type) = "" \/ HasMethod(OverlayCallee(indi_type))
                  THEN [skip EXCEPT
                          !.linked_fig.layers =
                              @ \o OverlayLayers(indi_type, indicator, st.indis_over),
                          !.indis_over = @ + OverlayUnits(indi_type)]
                  ELSE [st EXCEPT !.raised = TRUE]
             ELSE IF BelowAdmits(indi_type, st.indis_below)
             THEN [skip EXCEPT
                     !.bottom_figs =
                         Append(@, BelowFigure(indi_type, indicator, owner, st.linked_fig)),
                     !.indis_below = @ + BelowUnits(indi_type)]
             ELSE skip
        ELSE IF UnrecognisedAdmits(st.indis_below)
             THEN [skip EXCEPT
                     !.printed = Append(@, indicator),
                     !.bottom_figs =
                         Append(@, PlotLineNewFig(owner, st.linked_fig, indicator)),
                     !.indis_below = @ + 1]
             ELSE skip

RECURSIVE AllocFrom(_, _)
AllocFrom(st, mapping) ==
    IF st.raised \/ st.idx > Len(mapping) THEN st
    ELSE AllocFrom(AllocStep(st, mapping), mapping)

(* self._plot_indicators(indicators, linked_fig) *)
PlotIndicatorsRun(mapping, fig) == AllocFrom(AllocStart(fig), mapping)

----------------------------------------------------------------------------
(* plot *)

TOP == -1       \* the figure built by _plot_line for the NAV (top_fig)

(* _plot_line with new_fig=False: one more black line on the figure given. *)
PlotLineOn(fig, legend_label) ==
    [fig EXCEPT !.layers =
        Append(@, [glyph |-> "line", legend_label |-> legend_label, colour |-> "black"])]

(* The top figure of a backtest chart. *)
TopFig(candle_plot, with_cumulative_PL) ==
    LET top_fig == PlotLineNewFig(TOP, candle_plot, "Net Asset Value")
    IN  IF with_cumulative_PL THEN PlotLineOn(top_fig, "Cumulative P/L") ELSE top_fig

(* if len(table) > 0: self._plot_trade_history(table, candle_plot, ...) *)
TradeHistoryIfAny(axis, table, kind) ==
    IF FrameLen(table) > 0 THEN TradeHistoryRun(axis, table, kind)
    ELSE [layers |-> <<>>, trade_summary |-> table]

(* The run of plot on self.data = axis with the arguments a: whether it raised,
   the list plots, the locals of _plot_indicators when it was left, and the
   caller's trade tables afterwards. *)
PlotRun(axis, a) ==
    LET candle0   == PlotCandles(CANDLE)
        top_figs  == IF a.backtest THEN << TopFig(candle0, a.cumulative_PL) >> ELSE <<>>
        closed    == TradeHistoryRun(axis, a.trade_summary, "closed")
        cancelled == TradeHistoryIfAny(axis, a.cancelled_trades, "cancelled")
        open      == TradeHistoryIfAny(axis, a.open_trades, "open")
        candle1   == IF a.backtest
                     THEN [candle0 EXCEPT !.layers =
                              @ \o closed.layers \o cancelled.layers \o open.layers]
                     ELSE candle0
        alloc     == IF a.indicators_given THEN PlotIndicatorsRun(a.indicators, candle1)
                     ELSE AllocStart(candle1)
        stack     == top_figs \o << alloc.linked_fig >> \o alloc.bottom_figs
        titled    == [stack EXCEPT ![1].title = "title_string"]
    IN  [ raised |-> alloc.raised \/ FrameLen(axis) = 0,
          plots  |-> titled,
          alloc  |-> alloc,
          tables |-> IF a.backtest
                     THEN [ trade_summary    |-> closed.trade_summary,
                            cancelled_trades |-> cancelled.trade_summary,
                            open_trades      |-> open.trade_summary ]
                     ELSE TablesOf(a) ]

(* self.plot(...) with arguments drawn from Inputs. When it returns the page
   shows the whole axis. *)
Plot(Inputs) ==
    /\ pc = "constructed"
    /\ \E a \in Inputs :
         \E run \in { PlotRun(data, a) } :
             /\ passed' = a
             /\ backtest_dict' = run.tables
             /\ pc' = IF run.raised THEN "raised" ELSE "plotted"
             /\ plots' = IF run.raised THEN <<>> ELSE run.plots
             /\ x_view' = IF run.raised THEN x_view
                          ELSE [start |-> 0, end |-> FrameLen(data) - 1]
             /\ indicators' = a.indicators
             /\ idx' = run.alloc.idx
             /\ indis_over' = run.alloc.indis_over
             /\ indis_below' = run.alloc.indis_below
             /\ bottom_figs' = run.alloc.bottom_figs
             /\ linked_fig' = run.alloc.linked_fig
             /\ printed' = run.alloc.printed
    /\ UNCHANGED <<frameVars, y_view, _modified_data>>

(* A price series whose index is strictly increasing. *)
Chronological(df) ==
    \A k \in 1..(FrameLen(df) - 1) : df.index[k] < df.index[k + 1]

(* The instance is built on a chronological price series that has bars. *)
InitPlot ==
    /\ pc = "idle"
    /\ indicators = <<>>
    /\ idx = 1
    /\ indis_over = 0
    /\ indis_below = 0
    /\ bottom_figs = <<>>
    /\ linked_fig = PlotCandles(CANDLE)
    /\ printed = <<>>
    /\ series \in PriceSeries(MaxBars, FlatPrices)
    /\ FrameLen(series) >= 1
    /\ Chronological(series)
    /\ data = EmptyFrame
    /\ renormalised = EmptyFrame
    /\ trade_summary = EmptyFrame
    /\ summary_kind = "closed"
    /\ NothingPlotted

(* plot(indicators = m), and plot(backtest_dict = ...) of a backtest without
   trades whose indicators are m, with and without cumulative_PL. *)
PanelInputs ==
    { [NoArgs EXCEPT !.backtest = bc[1], !.cumulative_PL = bc[2],
                     !.indicators_given = TRUE, !.indicators = m] :
        bc \in { <<FALSE, FALSE>>, <<TRUE, FALSE>>, <<TRUE, TRUE>> },
        m \in SeqsUpTo(IndicatorTypes, MaxPlotIndis) }
    \cup { [NoArgs EXCEPT !.backtest = b] : b \in BOOLEAN }

PlotPanels == Plot(PanelInputs)

NextPanels ==
    \/ Construct
    \/ PlotPanels

SpecPanels == InitPlot /\ [][NextPanels]_vars

----------------------------------------------------------------------------
(* plot on a backtest with trades *)

(* The trades that carry a stop loss and a take profit and, when closed, made
   a profit and left at the time they were entered. *)
BacktestEntries(kind) ==
    { e \in TradeEntries(kind) :
        /\ e.Stop_loss = "price"
        /\ e.Take_profit = "price"
        /\ kind = "closed" => (e.Profit = 1 /\ e.Exit_time = e.time) }

(* The tables of up to n such trades. *)
BacktestTables(kind, n) ==
    { [index |-> [k \in 1..Len(es) |-> es[k].time],
       rows  |-> [k \in 1..Len(es) |->
                    [c \in (DOMAIN es[k]) \ { "time" } |-> es[k][c]]]] :
      es \in SeqsUpTo(BacktestEntries(kind), n) }

(* The tables of closed, cancelled and open trades of the backtests of up to
   MaxTrades trades in all. *)
BacktestTrades ==
    UNION { UNION { { [NoArgs EXCEPT !.backtest = TRUE, !.trade_summary = t,
                                     !.cancelled_trades = tc, !.open_trades = to] :
                        to \in BacktestTables("open",
                                              MaxTrades - FrameLen(t) - FrameLen(tc)) } :
                    tc \in BacktestTables("cancelled", MaxTrades - FrameLen(t)) } :
            t \in BacktestTables("closed", MaxTrades) }

(* plot(backtest_dict = ...) for these backtests, without indicators (None or
   an empty mapping) or with a MACD and a moving average, with and without
   cumulative_PL. *)
BacktestInputs ==
    { [a EXCEPT !.cumulative_PL = c, !.indicators_given = m[1], !.indicators = m[2]] :
        a \in BacktestTrades,
        c \in BOOLEAN,
        m \in { <<FALSE, <<>> >>, <<TRUE, <<>> >>, <<TRUE, <<"MACD", "MA">> >> } }

PlotBacktest == Plot(BacktestInputs)

NextBacktest ==
    \/ Construct
    \/ PlotBacktest

SpecBacktest == InitTrades /\ [][NextBacktest]_vars

----------------------------------------------------------------------------
(* plot on a backtest of ScenarioBars bars with a MACD and a moving average
   and two closed, profitable long trades *)

(* Bar k of the series is at time 100 + k. *)
ScenarioSeries ==
    [index |-> [k \in 1..ScenarioBars |-> 100 + k],
     rows  |-> [k \in 1..ScenarioBars |-> [Open |-> 1, High |-> 1, Low |-> 1, Close |-> 1]]]

(* The times of the bars, and one time after the last bar. *)
ScenarioTimes == { 100 + k : k \in 1..(ScenarioBars + 1) }

(* The tables of two closed long trades with a profit, in the order of their
   entry times, each with a stop loss and a take profit and each leaving at
   the time it was entered. *)
ScenarioTrades ==
    { [index |-> << e[1], e[2] >>,
       rows  |-> [k \in 1..2 |->
                    [Exit_time |-> e[k], Size |-> 1, Profit |-> 1,
                     Stop_loss |-> "price", Take_profit |-> "price"]]] :
      e \in { p \in ScenarioTimes \X ScenarioTimes : p[1] <= p[2] } }

ScenarioInputs ==
    { [NoArgs EXCEPT !.backtest = TRUE, !.indicators_given = TRUE,
                     !.indicators = m, !.trade_summary = t] :
        m \in { <<"MACD", "MA">>, <<"MA", "MACD">> }, t \in ScenarioTrades }

InitEndToEnd ==
    /\ pc = "idle"
    /\ indicators = <<>>
    /\ idx = 1
    /\ indis_over = 0
    /\ indis_below = 0
    /\ bottom_figs = <<>>
    /\ linked_fig = PlotCandles(CANDLE)
    /\ printed = <<>>
    /\ series = ScenarioSeries
    /\ data = EmptyFrame
    /\ renormalised = EmptyFrame
    /\ trade_summary = EmptyFrame
    /\ summary_kind = "closed"
    /\ NothingPlotted

PlotScenario == Plot(ScenarioInputs)

NextEndToEnd ==
    \/ Construct
    \/ PlotScenario

SpecEndToEnd == InitEndToEnd /\ [][NextEndToEnd]_vars

----------------------------------------------------------------------------
(* _plot_multibot_backtest *)

(* value[...] and value.index raise TypeError and AttributeError on None. *)
Subscriptable(value) == value # "None"

(* A figure of the dashboard: its name, the x range it holds, the frame its
   x axis labels are read from. *)
DashboardFigure(name, x_range, labels) ==
    [ kind |-> name, x_range |-> x_range, labels |-> labels ]

(* The run of _plot_multibot_backtest for a results table of bots rows: whether
   it raised, and the figures of the layout. *)
MultibotRun(modified, bots) ==
    IF ~ Subscriptable(modified)
    THEN [ raised |-> TRUE, plots |-> <<>> ]
    ELSE LET navfig  == DashboardFigure("navfig", Range("navfig", "x"), Col(modified, "date"))
             winrate == DashboardFigure("winrate", Range("winrate", "x"), <<>>)
             pie     == DashboardFigure("pie", Range("pie", "x"), <<>>)
             plbars  == DashboardFigure("plbars", Range("plbars", "x"), <<>>)
             cplfig  == DashboardFigure("cplfig", navfig.x_range, Col(modified, "date"))
         IN  [ raised |-> FALSE, plots |-> << navfig, winrate, pie, plbars, cplfig >> ]

InitMultibot ==
    /\ pc = "idle"
    /\ indicators = <<>>
    /\ idx = 1
    /\ indis_over = 0
    /\ indis_below = 0
    /\ bottom_figs = <<>>
    /\ linked_fig = PlotCandles(CANDLE)
    /\ printed = <<>>
    /\ series \in PriceSeries(MaxBars, ClosePrices)
    /\ FrameLen(series) >= 1
    /\ data = EmptyFrame
    /\ renormalised = EmptyFrame
    /\ trade_summary = EmptyFrame
    /\ summary_kind = "closed"
    /\ NothingPlotted

(* self._plot_multibot_backtest(multibot_backtest_results, NAV, cpl_dict) for a
   results table of 1..MaxBots bots; of the arguments their number is kept. *)
PlotMultibotBacktest ==
    /\ pc = "constructed"
    /\ \E bots \in 1..MaxBots :
         \E run \in { MultibotRun(_modified_data, bots) } :
             /\ passed' = [multibot_backtest_results |-> bots]
             /\ pc' = IF run.raised THEN "raised" ELSE "dashboard"
             /\ plots' = run.plots
    /\ UNCHANGED <<indicators, idx, indis_over, indis_below, bottom_figs, linked_fig,
                   printed, frameVars, backtest_dict, x_view, y_view, _modified_data>>

NextMultibot ==
    \/ Construct
    \/ PlotMultibotBacktest

SpecMultibot == InitMultibot /\ [][NextMultibot]_vars

----------------------------------------------------------------------------
(* The page in the browser: pan and zoom events on the shared x range, and the
   callback that plot registers on it. *)

OHLCPrices == { 1, 2, 3 }

(* The price series of up to n bars, bar k at time 100 + k, with Low <= High,
   opening at the Low and closing at the High. *)
OHLCSeries(n) ==
    { [index |-> [k \in 1..Len(bars) |-> 100 + k],
       rows  |-> [k \in 1..Len(bars) |->
                    [Open |-> bars[k].Low, High |-> bars[k].High,
                     Low |-> bars[k].Low, Close |-> bars[k].High]]] :
      bars \in SeqsUpTo({ b \in [Low : OHLCPrices, High : OHLCPrices] : b.Low <= b.High }, n) }

(* The windows a pan or zoom can leave visible: whole positions of the axis. *)
Windows(axis) ==
    { w \in [start : 0..(FrameLen(axis) - 1), end : 0..(FrameLen(axis) - 1)] :
        w.start <= w.end }

(* The rows of the source inside the window. *)
Visible(axis, w) ==
    { k \in 1..FrameLen(axis) :
        w.start <= axis.rows[k].data_index /\ axis.rows[k].data_index <= w.end }

MinOf(S) == CHOOSE x \in S : \A y \in S : x <= y

MaxOf(S) == CHOOSE x \in S : \A y \in S : y <= x

(* Autoscaled that looks at the last visible bar only. *)
Autoscaled_LastBar(axis, w) ==
    LET last == CHOOSE k \in Visible(axis, w) : \A j \in Visible(axis, w) : j <= k
        pad  == axis.rows[last].High - axis.rows[last].Low
    IN  [by |-> "autoscale", start |-> axis.rows[last].Low - pad,
         end |-> axis.rows[last].High + pad]

(* lib/autoscale.js: the minimum and maximum of the visible slice of the
   source, widened by a padding proportional to their distance. *)
Autoscaled(axis, w) ==
    LET lo  == MinOf({ axis.rows[k].Low : k \in Visible(axis, w) })
        hi  == MaxOf({ axis.rows[k].High : k \in Visible(axis, w) })
        pad == hi - lo
    IN  [by |-> "autoscale", start |-> lo - pad, end |-> hi + pad]

(* AutoscaleTriggered that listens to 'start'. *)
AutoscaleTriggered_OnStart(old, new) == new.start # old.start

(* candle_plot.x_range.js_on_change('end', ...): the callback runs when the
   property end of the range takes a new value. *)
AutoscaleTriggered(old, new) == new.end # old.end

InitLink ==
    /\ pc = "idle"
    /\ indicators = <<>>
    /\ idx = 1
    /\ indis_over = 0
    /\ indis_below = 0
    /\ bottom_figs = <<>>
    /\ linked_fig = PlotCandles(CANDLE)
    /\ printed = <<>>
    /\ series \in OHLCSeries(MaxBars)
    /\ FrameLen(series) >= 1
    /\ data = EmptyFrame
    /\ renormalised = EmptyFrame
    /\ trade_summary = EmptyFrame
    /\ summary_kind = "closed"
    /\ NothingPlotted

(* plot() of the price data alone *)
PlotChart == Plot({ NoArgs })

(* A pan or a zoom in any panel sets start and end of the shared x range; the
   callback, when triggered, sets start and end of candle_plot.y_range. *)
PanZoom ==
    /\ pc = "plotted"
    /\ \E w \in Windows(data) :
         /\ w # x_view
         /\ x_view' = w
         /\ y_view' = IF AutoscaleTriggered(x_view, w) THEN Autoscaled(data, w) ELSE y_view
    /\ UNCHANGED <<pc, indicators, idx, indis_over, indis_below, bottom_figs, linked_fig,
                   printed, frameVars, passed, backtest_dict, plots, _modified_data>>

NextLink ==
    \/ Construct
    \/ PlotChart
    \/ PanZoom

SpecLink == InitLink /\ [][NextLink]_vars

----------------------------------------------------------------------------
(* Properties of _plot_indicators *)

Min(a, b) == IF a < b THEN a ELSE b

OrdinaryOverlayTypes == { "MA", "over" }

SpecialOverlayTypes == { "Supertrend", "Swings" }

(* The loop is about to process an indicator whose type is in S. *)
AtIndicatorOf(S) ==
    pc = "loop" /\ idx <= Len(indicators) /\ indicators[idx] \in S

(* The layers drawn on the base figure after the two candle layers. *)
OverlayDrawn == SubSeq(linked_fig.layers, 3, Len(linked_fig.layers))

AllOrdinaryOverlay ==
    \A k \in 1..Len(indicators) : indicators[k] \in OrdinaryOverlayTypes

HeikinAshiAdmitted ==
    \E k \in 1..Len(bottom_figs) : bottom_figs[k].kind = "candles"

(* C1: whatever the types of the mapping, _plot_indicators never propagates an
   error to its caller. *)
C1_NoErrorPropagated == pc # "raised"

(* C2: for a mapping of ordinary overlay indicators only, nothing is raised and
   nothing is printed, and when the call returns exactly the first
   max_indis_over indicators are drawn on the base figure, in order, and no
   sub-panel exists. *)
C2_FirstThreeOverlays ==
    AllOrdinaryOverlay =>
        /\ pc # "raised"
        /\ printed = <<>>
        /\ pc = "returned" =>
              /\ Len(OverlayDrawn) = Min(Len(indicators), max_indis_over)
              /\ \A k \in 1..Len(OverlayDrawn) :
                    /\ OverlayDrawn[k].glyph = "line"
                    /\ OverlayDrawn[k].legend_label = k
              /\ bottom_figs = <<>>

C2_Witness ==
    /\ pc = "returned"
    /\ AllOrdinaryOverlay
    /\ Len(indicators) > max_indis_over
    /\ Len(OverlayDrawn) = max_indis_over

(* C3: when the mapping is one special overlay indicator followed by ordinary
   overlay lines, the call ends with the special indicator drawn, two units
   consumed by it, and exactly one ordinary line drawn if any was declared. *)
C3_SpecialTakesTwoUnits ==
    ( /\ pc \in { "returned", "raised" }
      /\ Len(indicators) >= 1
      /\ indicators[1] \in SpecialOverlayTypes
      /\ \A k \in 2..Len(indicators) : indicators[k] \in OrdinaryOverlayTypes )
    =>
    ( /\ pc = "returned"
      /\ indis_over = 2 + Min(Len(indicators) - 1, max_indis_over - 2)
      /\ Len(SelectSeq(OverlayDrawn, LAMBDA l : l.glyph = "scatter")) >= 1
      /\ Len(SelectSeq(OverlayDrawn, LAMBDA l : l.glyph = "line"))
            = Min(Len(indicators) - 1, max_indis_over - 2) )

(* C4: once a Heikin-Ashi sub-panel exists, no step adds a sub-panel, and an
   ordinary overlay indicator met while overlay capacity remains is still
   drawn. *)
C4_HeikinAshiBlocksBelow ==
    [][ HeikinAshiAdmitted =>
          /\ bottom_figs' = bottom_figs
          /\ ( AtIndicatorOf(OrdinaryOverlayTypes) /\ indis_over < max_indis_over )
                => ( /\ Len(linked_fig'.layers) = Len(linked_fig.layers) + 1
                     /\ indis_over' = indis_over + 1 ) ]_vars

C4_Witness ==
    /\ pc = "returned"
    /\ Len(bottom_figs) = 1
    /\ bottom_figs[1].kind = "candles"
    /\ \E j \in 1..Len(indicators), k \in 1..Len(indicators) :
          /\ j < k
          /\ indicators[j] = "Heikin-Ashi"
          /\ \A h \in 1..(j - 1) : indicators[h] \in OrdinaryOverlayTypes
          /\ indicators[k] \in { "RSI", "MACD", "Fibonacci" }

(* C5 as stated: every indicator of an unrecognised type produces a diagnostic
   and no error. *)
C5_AlwaysDiagnostic ==
    [][ AtIndicatorOf(IndicatorTypes \ DOMAIN plot_type) =>
          /\ pc' # "raised"
          /\ printed' = Append(printed, idx) ]_vars

(* C5, amended: an indicator of an unrecognised type never raises; if sub-panel
   capacity remains at its turn it is reported, drawn as a single-line
   sub-panel and counted as one unit; otherwise it is dropped and nothing is
   printed. *)
C5_DiagnosticIffCapacity ==
    [][ AtIndicatorOf(IndicatorTypes \ DOMAIN plot_type) =>
          /\ pc' # "raised"
          /\ IF indis_below < max_indis_below
             THEN /\ printed' = Append(printed, idx)
                  /\ Len(bottom_figs') = Len(bottom_figs) + 1
                  /\ bottom_figs'[Len(bottom_figs')].kind = "line"
                  /\ Len(bottom_figs'[Len(bottom_figs')].layers) = 1
                  /\ SubSeq(bottom_figs', 1, Len(bottom_figs)) = bottom_figs
                  /\ indis_below' = indis_below + 1
             ELSE /\ printed' = printed
                  /\ bottom_figs' = bottom_figs
                  /\ indis_below' = indis_below
          /\ linked_fig' = linked_fig
          /\ indis_over' = indis_over ]_vars

C5_Witness ==
    /\ pc = "returned"
    /\ \E j \in 1..Len(indicators), k \in 1..Len(indicators) :
          /\ indicators[j] \notin DOMAIN plot_type
          /\ indicators[k] \notin DOMAIN plot_type
          /\ \E p \in 1..Len(printed) : printed[p] = j
          /\ \A p \in 1..Len(printed) : printed[p] # k

----------------------------------------------------------------------------
(* Properties of _reindex_data *)

(* out is the normalisation of in: as many bars, the index and data_index
   0..N-1 in row order, date the index of in, the other columns as in in. *)
NormalisedFrom(out, in) ==
    /\ Len(out.index) = Len(in.index)
    /\ Len(out.rows) = Len(in.rows)
    /\ \A k \in 1..Len(in.index) :
          /\ out.index[k] = k - 1
          /\ out.rows[k].data_index = k - 1
          /\ out.rows[k].date = in.index[k]
          /\ out.rows[k].Close = in.rows[k].Close

(* C9: each application of _reindex_data returns a frame of as many bars as
   its input, with data_index 0..N-1 in row order and date[i] the i-th index
   value of the input, and leaves the input object as it was. *)
C9_NormalisedAndInputKept ==
    [][ /\ ( pc = "idle" /\ pc' = "constructed" )
            => ( NormalisedFrom(data', series) /\ series' = series )
        /\ ( pc = "constructed" /\ pc' = "renormalised" )
            => ( NormalisedFrom(renormalised', data) /\ data' = data ) ]_vars

C9_Witness ==
    /\ pc = "constructed"
    /\ FrameLen(series) >= 2
    /\ series.index[1] = series.index[2]
    /\ data.rows[1].date = data.rows[2].date
    /\ data.rows[2].data_index = 1

(* C10 as stated: normalising the normalised frame gives the same
   data_index -> date mapping as normalising once. *)
C10_Idempotent ==
    pc = "renormalised" =>
        /\ Col(renormalised, "data_index") = Col(data, "data_index")
        /\ Col(renormalised, "date") = Col(data, "date")

(* C10, amended: normalising the normalised frame keeps the number of bars,
   the index and data_index 0..N-1 and the price columns, and its date column
   is the integer index of the first result, date[i] = i. *)
C10_SecondPassKeepsIndexOnly ==
    pc = "renormalised" =>
        /\ FrameLen(renormalised) = FrameLen(data)
        /\ Len(renormalised.rows) = Len(data.rows)
        /\ \A k \in 1..FrameLen(data) :
              /\ data.index[k] = k - 1
              /\ renormalised.index[k] = k - 1
              /\ renormalised.rows[k].data_index = data.rows[k].data_index
              /\ renormalised.rows[k].date = k - 1
              /\ renormalised.rows[k].Close = data.rows[k].Close

C10_Witness ==
    /\ pc = "renormalised"
    /\ FrameLen(data) >= 2
    /\ data.rows[2].date \in Timestamps
    /\ renormalised.rows[2].date = 1

----------------------------------------------------------------------------
(* Properties of _plot_trade_history *)

(* The layers drawn on the base figure after the two candle layers. *)
TradeLayers == OverlayDrawn

ClassLabels ==
    { "Profitable long trades", "Profitable short trades",
      "Unprofitable long trades", "Unprofitable short trades" }

(* The bars of self.data whose timestamp is t. *)
BarsAt(t) == { k \in 1..Len(data.rows) : data.rows[k].date = t }

(* The records of the table whose entry timestamp is on the axis. *)
MatchedRecords ==
    { j \in 1..FrameLen(trade_summary) : BarsAt(trade_summary.index[j]) # {} }

UnmatchedRecords == (1..FrameLen(trade_summary)) \ MatchedRecords

(* The positions of the layers with one of the labels. *)
LayersLabelled(labels) ==
    { l \in 1..Len(TradeLayers) : TradeLayers[l].legend_label \in labels }

(* How many points of layer l come from record j. *)
PointsOfRecord(l, j) ==
    Cardinality({ p \in 1..Len(TradeLayers[l].points) : TradeLayers[l].points[p].row = j })

(* C6 as stated: a record whose entry timestamp is not on the axis has no point
   in any layer of the overlay. *)
C6_UnmatchedEntryNoPoints ==
    pc = "returned" =>
        \A j \in UnmatchedRecords :
            \A l \in 1..Len(TradeLayers) : PointsOfRecord(l, j) = 0

(* C6, amended: a record whose entry timestamp is not on the axis has no point
   in the entry-marker, stop-loss and take-profit layers; in the position-exit
   layer it has one point for every bar whose timestamp is its exit timestamp. *)
C6_UnmatchedEntryOnlyExitPoints ==
    pc = "returned" =>
        \A j \in UnmatchedRecords :
            \A l \in 1..Len(TradeLayers) :
                IF TradeLayers[l].legend_label = "Position exit"
                THEN PointsOfRecord(l, j)
                        = Cardinality(BarsAt(trade_summary.rows[j].Exit_time))
                ELSE PointsOfRecord(l, j) = 0

C6_Witness ==
    /\ pc = "returned"
    /\ summary_kind = "closed"
    /\ MatchedRecords # {}
    /\ \E j \in UnmatchedRecords :
          /\ BarsAt(trade_summary.rows[j].Exit_time) # {}
          /\ \E l \in LayersLabelled({ "Position exit" }) : PointsOfRecord(l, j) = 1
          /\ \E l \in LayersLabelled({ "Stop loss" }) : PointsOfRecord(l, j) = 0

(* C7 as stated: if every record of the table has a stop-loss, there is a
   stop-loss layer with exactly one point per record of the table; if any
   record of the table has none, there is no stop-loss layer. *)
C7_StopLossAllOrNothingOverTable ==
    pc = "returned" =>
        IF \A j \in 1..FrameLen(trade_summary) : trade_summary.rows[j].Stop_loss # "None"
        THEN /\ Cardinality(LayersLabelled({ "Stop loss" })) = 1
             /\ \A l \in LayersLabelled({ "Stop loss" }) :
                   /\ Len(TradeLayers[l].points) = FrameLen(trade_summary)
                   /\ \A j \in 1..FrameLen(trade_summary) : PointsOfRecord(l, j) = 1
        ELSE LayersLabelled({ "Stop loss" }) = {}

(* C7, amended: if every record matched to the axis has a stop-loss, there is
   one stop-loss layer, with one point per pair of a record and a bar at its
   entry timestamp; if any matched record has none, there is no stop-loss
   layer. *)
C7_StopLossAllOrNothingOverMatched ==
    pc = "returned" =>
        IF \A j \in MatchedRecords : trade_summary.rows[j].Stop_loss # "None"
        THEN /\ Cardinality(LayersLabelled({ "Stop loss" })) = 1
             /\ \A l \in LayersLabelled({ "Stop loss" }) :
                   \A j \in 1..FrameLen(trade_summary) :
                      PointsOfRecord(l, j) = Cardinality(BarsAt(trade_summary.index[j]))
        ELSE LayersLabelled({ "Stop loss" }) = {}

C7_Witness ==
    /\ pc = "returned"
    /\ MatchedRecords = { 1, 2 }
    /\ trade_summary.rows[1].Stop_loss = "price"
    /\ trade_summary.rows[2].Stop_loss = "None"
    /\ LayersLabelled({ "Stop loss" }) = {}
    /\ LayersLabelled({ "Take profit" }) # {}

(* C8: every closed trade matched to the axis has, for each bar at its entry
   timestamp, exactly one entry marker, in exactly one of the four class
   layers. *)
C8_ClassesPartitionMatched ==
    ( pc = "returned" /\ summary_kind = "closed" ) =>
        \A j \in MatchedRecords :
            \A k \in BarsAt(trade_summary.index[j]) :
                Cardinality({ lp \in { <<l, p>> : l \in LayersLabelled(ClassLabels),
                                                  p \in 1..MaxBars * MaxTrades } :
                                /\ lp[2] <= Len(TradeLayers[lp[1]].points)
                                /\ TradeLayers[lp[1]].points[lp[2]].row = j
                                /\ TradeLayers[lp[1]].points[lp[2]].x = k - 1 }) = 1

(* C19: no step of the loop takes indis_over above max_indis_over, and a step
   at a Supertrend indicator whose two units do not fit into what is left of
   max_indis_over draws nothing and counts nothing. *)
C19_OverlayWithinCapacity ==
    [][ /\ indis_over' <= max_indis_over
        /\ (AtIndicatorOf({ "Supertrend" })
               /\ indis_over + OverlayUnits("Supertrend") > max_indis_over) =>
              (indis_over' = indis_over /\ linked_fig' = linked_fig) ]_vars

C19_Witness ==
    /\ pc = "raised"
    /\ indicators[idx] = "Supertrend"
    /\ indis_over = max_indis_over - 1
    /\ Len(OverlayDrawn) = max_indis_over - 1

----------------------------------------------------------------------------
(* Properties of plot *)

(* The sub-panels of the returned figure: what follows the base figure. *)
SubPanels == SubSeq(plots, Len(plots) - Len(bottom_figs) + 1, Len(plots))

(* C11: when plot returns, every panel of the figure - the top panel, the base
   panel and every sub-panel - holds the x range object that the base candle
   figure created. *)
C11_OneSharedXRange ==
    pc = "plotted" =>
        \A k \in 1..Len(plots) : plots[k].x_range = Range(CANDLE, "x")

C11_Witness ==
    /\ pc = "plotted"
    /\ passed.backtest
    /\ Len(bottom_figs) = max_indis_below
    /\ \E k \in 1..Len(plots) : plots[k].kind = "macd"
    /\ \E k \in 1..Len(plots) : plots[k].kind = "line" /\ plots[k].y_range = Range(TOP, "y")

(* The number of top figures of the figure returned. *)
TopPanels == IF passed.backtest THEN 1 ELSE 0

(* The indicator a sub-panel was created for. *)
PanelIndicator(fig) ==
    IF fig.kind \in { "macd", "candles" } THEN fig.title ELSE fig.layers[1].legend_label

(* C17: when plot returns, the list of panels is the top panels, then the one
   base candle panel, then the sub-panels the allocator created, in the order
   of the indicators they were created for; every sub-panel belongs to an
   indicator of a sub-panel or unrecognised type, and there are at most
   max_indis_below of them. *)
C17_PanelStack ==
    pc = "plotted" =>
        /\ Len(plots) = TopPanels + 1 + Len(bottom_figs)
        /\ \A k \in 1..TopPanels :
              plots[k].kind = "line" /\ plots[k].y_range = Range(TOP, "y")
        /\ plots[TopPanels + 1].kind = "candles"
        /\ plots[TopPanels + 1].layers = linked_fig.layers
        /\ SubPanels = bottom_figs
        /\ \A k \in 1..Len(bottom_figs) :
              /\ PanelIndicator(bottom_figs[k]) \in 1..Len(indicators)
              /\ indicators[PanelIndicator(bottom_figs[k])] \notin DOMAIN plot_type
                    \/ plot_type[indicators[PanelIndicator(bottom_figs[k])]] = "below"
        /\ \A k \in 1..(Len(bottom_figs) - 1) :
              PanelIndicator(bottom_figs[k]) < PanelIndicator(bottom_figs[k + 1])
        /\ Len(bottom_figs) <= max_indis_below

C17_Witness ==
    /\ pc = "plotted"
    /\ passed.backtest
    /\ Len(plots) = 1 + 1 + max_indis_below
    /\ Len(indicators) > max_indis_below
    /\ \A k \in 1..Len(indicators) :
          indicators[k] \in DOMAIN plot_type /\ plot_type[indicators[k]] = "below"

(* C18 as claimed: when plot returns, every sub-panel, the Heikin-Ashi one
   included, holds a y range that is not the y range of the base panel. *)
C18_OwnYRange ==
    pc = "plotted" =>
        \A k \in 1..Len(bottom_figs) : bottom_figs[k].y_range # Range(CANDLE, "y")

(* C18, amended: when plot returns, all panels hold the x range of the base
   panel; a sub-panel holds the y range of the base panel exactly if it is the
   Heikin-Ashi panel, and every other sub-panel and the top panel hold a y
   range of their own that no other panel holds. *)
C18_OwnYRangeButHeikinAshi ==
    pc = "plotted" =>
        /\ \A k \in 1..Len(bottom_figs) :
              /\ bottom_figs[k].x_range = Range(CANDLE, "x")
              /\ bottom_figs[k].y_range = Range(CANDLE, "y")
                    <=> indicators[PanelIndicator(bottom_figs[k])] = "Heikin-Ashi"
        /\ \A j, k \in 1..Len(plots) :
              (j # k /\ plots[j].y_range = plots[k].y_range) =>
                 plots[j].y_range = Range(CANDLE, "y")

C18_Witness ==
    /\ pc = "plotted"
    /\ Len(bottom_figs) = max_indis_below
    /\ bottom_figs[1].kind = "macd"
    /\ bottom_figs[1].y_range # Range(CANDLE, "y")
    /\ bottom_figs[max_indis_below].kind = "candles"
    /\ bottom_figs[max_indis_below].y_range = Range(CANDLE, "y")

----------------------------------------------------------------------------
(* Properties of the page *)

(* C12 as claimed: every pan or zoom event that changes the visible range, be
   it in its start, in its end or in both, leaves the base panel's y range
   equal to the autoscale result of the window now visible. *)
C12_EveryChangeRescales ==
    [][ (pc = "plotted" /\ x_view' # x_view) => y_view' = Autoscaled(data, x_view') ]_vars

(* C12, amended: an event that changes the end of the visible range leaves the
   base panel's y range equal to the autoscale result of the window now
   visible; an event that changes the start alone leaves the y range as it
   was. *)
C12_EndChangeRescales ==
    [][ (pc = "plotted" /\ x_view' # x_view) =>
            IF x_view'.end # x_view.end
            THEN y_view' = Autoscaled(data, x_view')
            ELSE y_view' = y_view ]_vars

(* After a change of the start alone the y range is not the autoscale result of
   the visible window. *)
C12_Witness ==
    /\ pc = "plotted"
    /\ y_view.by = "autoscale"
    /\ y_view # Autoscaled(data, x_view)

(* w1 lies strictly inside w2. *)
StrictlyInside(w1, w2) ==
    /\ w2.start <= w1.start
    /\ w1.end <= w2.end
    /\ w1 # w2

(* C13: for the OHLC array of the chart, the y range the callback sets is a
   function of the visible window alone, and for a window strictly inside a
   wider one the range computed is no wider than, and lies within, the range
   computed for the wider window. *)
C13_AutoscaleMonotone ==
    pc = "plotted" =>
        /\ y_view.by = "autoscale" =>
              \E w \in Windows(data) : w.end = x_view.end /\ y_view = Autoscaled(data, w)
        /\ \A w1, w2 \in Windows(data) :
              StrictlyInside(w1, w2) =>
                 /\ Autoscaled(data, w2).start <= Autoscaled(data, w1).start
                 /\ Autoscaled(data, w1).end <= Autoscaled(data, w2).end
                 /\ Autoscaled(data, w1).end - Autoscaled(data, w1).start
                       <= Autoscaled(data, w2).end - Autoscaled(data, w2).start

C13_Witness ==
    /\ pc = "plotted"
    /\ y_view.by = "autoscale"
    /\ \E w2 \in Windows(data) :
          /\ StrictlyInside(x_view, w2)
          /\ y_view = Autoscaled(data, x_view)
          /\ y_view.end - y_view.start < Autoscaled(data, w2).end - Autoscaled(data, w2).start

----------------------------------------------------------------------------
(* Properties of the end-to-end scenario *)

(* The base figure of the list plots. *)
BasePanel == plots[Len(plots) - Len(bottom_figs)]

(* The layers of the base figure after the two that draw the candles. *)
BaseOverlays == SubSeq(BasePanel.layers, 3, Len(BasePanel.layers))

LayersOf(label) ==
    { k \in 1..Len(BaseOverlays) :
        BaseOverlays[k].glyph = "scatter" /\ BaseOverlays[k].legend_label = label }

(* The trades of the table passed whose entry time is the time of a bar. *)
EnteredOnAxis ==
    { j \in 1..FrameLen(passed.trade_summary) :
        \E k \in 1..FrameLen(data) : data.rows[k].date = passed.trade_summary.index[j] }

IsMALine(layer) == layer.glyph = "line" /\ layer.colour = colours[1]

(* C14 as claimed: the figure has exactly one base panel and one sub-panel,
   the base panel carries the candles and the moving-average line and, as its
   only other layer, one 'Profitable long trades' layer of two points. *)
C14_AsClaimed ==
    pc = "plotted" =>
        /\ Cardinality({ k \in 1..Len(plots) : plots[k].kind = "candles" }) = 1
        /\ Len(bottom_figs) = 1
        /\ \E k \in 1..Len(BaseOverlays) :
              /\ LayersOf("Profitable long trades") = { k }
              /\ Len(BaseOverlays[k].points) = 2
        /\ \A k \in 1..Len(BaseOverlays) :
              k \in LayersOf("Profitable long trades") \/ IsMALine(BaseOverlays[k])

(* C14, amended: the figure is the NAV panel, the base panel and the MACD
   panel; the base panel carries the candles, exactly one indicator layer (the
   moving-average line), one 'Stop loss', one 'Take profit' and one 'Position
   exit' layer and, when both trades were entered at bars of the series,
   exactly one 'Profitable long trades' layer of two points. *)
C14_EndToEnd ==
    pc = "plotted" =>
        /\ Len(plots) = 3
        /\ plots[1].kind = "line" /\ plots[1].layers[1].legend_label = "Net Asset Value"
        /\ plots[2].kind = "candles"
        /\ plots[3].kind = "macd" /\ bottom_figs = << plots[3] >>
        /\ Cardinality({ k \in 1..Len(BaseOverlays) : IsMALine(BaseOverlays[k]) }) = 1
        /\ Cardinality(LayersOf("Position exit")) = 1
        /\ Cardinality(LayersOf("Take profit")) = 1
        /\ Cardinality(LayersOf("Stop loss")) = 1
        /\ \A k \in 1..Len(BaseOverlays) :
              \/ IsMALine(BaseOverlays[k])
              \/ \E label \in { "Profitable long trades", "Position exit", "Take profit",
                                 "Stop loss" } : k \in LayersOf(label)
        /\ Cardinality(EnteredOnAxis) = 2 =>
              \E k \in 1..Len(BaseOverlays) :
                 /\ LayersOf("Profitable long trades") = { k }
                 /\ Len(BaseOverlays[k].points) = 2

C14_Witness ==
    /\ pc = "plotted"
    /\ FrameLen(data) = ScenarioBars
    /\ Cardinality(EnteredOnAxis) = 2
    /\ passed.trade_summary.index[1] < passed.trade_summary.index[2]
    /\ \E k \in LayersOf("Profitable long trades") :
          /\ Len(BaseOverlays[k].points) = 2
          /\ BaseOverlays[k].points[1].x < BaseOverlays[k].points[2].x
    /\ Len(bottom_figs) = 1

----------------------------------------------------------------------------
(* Properties of plot on a backtest *)

(* plot was given a backtest without trades and without indicators. *)
EmptyBacktest ==
    /\ pc \in { "plotted", "raised" }
    /\ passed.backtest
    /\ passed.indicators = <<>>
    /\ FrameLen(passed.trade_summary) = 0
    /\ FrameLen(passed.cancelled_trades) = 0
    /\ FrameLen(passed.open_trades) = 0

(* C15 as claimed: for a backtest without trades and without indicators plot
   returns a figure that is the base panel alone, with no layer but the
   candles. *)
C15_NothingDrawn ==
    EmptyBacktest =>
        /\ pc = "plotted"
        /\ Len(plots) = 1
        /\ BaseOverlays = <<>>

(* C15, amended: for a backtest without trades and without indicators plot
   returns without error a figure of the NAV top panel and the base panel, with
   no sub-panel; the base panel carries no entry-marker layer, and carries a
   'Stop loss', a 'Take profit' and a 'Position exit' layer without points. *)
C15_EmptyBacktest ==
    EmptyBacktest =>
        /\ pc = "plotted"
        /\ Len(plots) = 2
        /\ plots[1].kind = "line" /\ plots[1].layers[1].legend_label = "Net Asset Value"
        /\ plots[2].kind = "candles"
        /\ bottom_figs = <<>>
        /\ Len(BaseOverlays) = 3
        /\ \A k \in 1..3 :
              /\ BaseOverlays[k].legend_label = << "Stop loss", "Take profit", "Position exit" >>[k]
              /\ BaseOverlays[k].points = <<>>

C15_Witness ==
    /\ EmptyBacktest
    /\ pc = "plotted"
    /\ passed.indicators_given
    /\ FrameLen(data) = MaxBars

(* C20: when plot returns, the caller's trade tables are the tables that were
   passed, with no column added and no index replaced. *)
C20_InputsUnchanged ==
    pc = "plotted" => backtest_dict = TablesOf(passed)

----------------------------------------------------------------------------
(* Properties of _plot_multibot_backtest *)

(* C16: on an instance built from a price series with bars, the call of
   _plot_multibot_backtest on a results table with rows returns the five
   figures of the dashboard, the x axis labels of the equity and cumulative
   P/L figures are the dates of self.data, and the cumulative P/L figure holds
   the x range of the equity figure. *)
C16_DashboardCompletes ==
    (pc \in { "raised", "dashboard" } /\ FrameLen(data) >= 1
        /\ passed.multibot_backtest_results >= 1) =>
        /\ pc = "dashboard"
        /\ [k \in 1..Len(plots) |-> plots[k].kind]
              = << "navfig", "winrate", "pie", "plbars", "cplfig" >>
        /\ plots[1].labels = Col(data, "date")
        /\ plots[5].labels = Col(data, "date")
        /\ plots[5].x_range = plots[1].x_range

====
